---------------------------- MODULE Spec2Model ----------------------------
(***************************************************************************)
(* Model of sunpy.net.jsoc_drms.jsoc.JSOCClient: the staging of export     *)
(* requests (request_data), the status poller (check_request) and the      *)
(* retrieve loop (get / get_request) with its downloader callbacks.        *)
(***************************************************************************)
EXTENDS Integers, Sequences, FiniteSets, TLC

(***************************************************************************)
(* Bounds of the model.                                                    *)
(***************************************************************************)
MaxBlocks == 2
MaxResponses == 2
MaxRequests == 2

(***************************************************************************)
(* Generic helpers for Python lists (0-based indices on 1-based Seq).      *)
(***************************************************************************)
\* list.pop(i) for 0 <= i < len(list): the list without element i
Pop(s, i) == [k \in 1..(Len(s) - 1) |-> IF k <= i THEN s[k] ELSE s[k + 1]]

\* the set of the elements of a list
Range(s) == {s[k] : k \in 1..Len(s)}

\* all lists over S of length lo..hi
SeqsOf(S, lo, hi) == UNION {[1..n -> S] : n \in lo..hi}

RECURSIVE SumLen(_)
SumLen(ss) == IF ss = <<>> THEN 0 ELSE Len(Head(ss)) + SumLen(Tail(ss))

(***************************************************************************)
(* The archive's answers to a staging request (jsoc_fetch, op=exp_request) *)
(***************************************************************************)
BASE_DL_URL == "http://jsoc.stanford.edu"

\* marks a key that is absent from a JSON body
NoKey == "<absent>"

\* identifiers the archive issues, in the order the staging requests arrive
IssuedIds == <<"R1", "R2", "R3", "R4", "R5", "R6", "R7", "R8", "R9", "R10", "R11", "R12">>

\* staged: HTTP 200, JSON status 2 and the identifier of the export
RespStaged == [status_code |-> 200, body |-> "json", status |-> 2, hasid |-> TRUE]
\* the archive reports an error for the block (no identifier in the body)
RespArchiveError == [status_code |-> 200, body |-> "json", status |-> 4, hasid |-> FALSE]
\* the archive refuses the export but names an identifier in the body
RespArchiveErrorId == [status_code |-> 200, body |-> "json", status |-> 3, hasid |-> TRUE]
\* transport failure: not 200, the body is no JSON document
RespHttpError == [status_code |-> 500, body |-> "none", status |-> 0, hasid |-> FALSE]

ResponseKinds == {RespStaged, RespArchiveError, RespArchiveErrorId, RespHttpError}

\* a block of jsoc_response.query_args, given as the answers its staging
\* requests will receive; one answer per block, more when the request is split
Blocks == SeqsOf(ResponseKinds, 1, MaxResponses)

QueryArgs == SeqsOf(Blocks, 1, MaxBlocks)

\* the responses of block b of query_args, each carrying the identifier issued
\* for its position among all staging requests of the call
multi_request(qa, b) ==
    LET before == SumLen(SubSeq(qa, 1, b - 1))
    IN  [j \in 1..Len(qa[b]) |->
            [status_code |-> qa[b][j].status_code,
             body        |-> qa[b][j].body,
             status      |-> qa[b][j].status,
             requestid   |-> IF qa[b][j].hasid THEN IssuedIds[before + j] ELSE NoKey]]

(***************************************************************************)
(* request_data.  st is the state of the call: responses (the list of the  *)
(* per-block lists), at (the position in responses of the list the for     *)
(* loop iterates, 0 once that list has been popped from responses), cur    *)
(* (that list), warnings, requestIDs, raised.                              *)
(***************************************************************************)
\* line 127: responses.pop(i)
PopOuter(st, i) ==
    IF i >= Len(st.responses)
    THEN [st EXCEPT !.raised = "IndexError"]
    ELSE [st EXCEPT !.responses = Pop(st.responses, i),
                    !.at = IF st.at = i + 1 THEN 0
                           ELSE IF st.at > i + 1 THEN st.at - 1 ELSE st.at]

\* line 135: responses[-1].pop(i)
PopInner(st, i) ==
    LET n == Len(st.responses)
    IN  IF n = 0 \/ i >= Len(st.responses[n])
        THEN [st EXCEPT !.raised = "IndexError"]
        ELSE [st EXCEPT !.responses[n] = Pop(st.responses[n], i),
                        !.cur = IF st.at = n THEN Pop(st.cur, i) ELSE st.cur]

\* lines 122-135: for i, response in enumerate(responses[-1])
RECURSIVE CheckResponses(_, _)
CheckResponses(st, i) ==
    IF st.raised # "no" \/ i >= Len(st.cur) THEN st
    ELSE LET response == st.cur[i + 1]
             warned   == [st EXCEPT !.warnings = st.warnings + 1]
         IN  IF response.status_code # 200
             THEN CheckResponses(PopOuter(warned, i), i + 1)
             ELSE IF response.status # 2
             THEN CheckResponses(PopInner(warned, i), i + 1)
             ELSE CheckResponses(st, i + 1)

\* line 138: requestIDs += [response.json()['requestid'] for response in responses[-1]]
\* the first response without a JSON body or without the key raises
ExtractIds(st) ==
    LET n    == Len(st.responses)
        last == st.responses[n]
        bad  == {k \in 1..Len(last) : last[k].body # "json" \/ last[k].requestid = NoKey}
        k0   == CHOOSE k \in bad : \A m \in bad : k <= m
    IN  IF st.raised # "no" THEN st
        ELSE IF n = 0 THEN [st EXCEPT !.raised = "IndexError"]
        ELSE IF bad # {}
        THEN [st EXCEPT !.raised = IF last[k0].body # "json" THEN "ValueError" ELSE "KeyError"]
        ELSE [st EXCEPT !.requestIDs =
                 st.requestIDs \o [k \in 1..Len(last) |-> last[k].requestid]]

\* lines 119-138: for block in jsoc_response.query_args
RECURSIVE SubmitBlocks(_, _, _)
SubmitBlocks(qa, b, st) ==
    IF st.raised # "no" \/ b > Len(qa) THEN st
    ELSE LET rs       == multi_request(qa, b)
             appended == [st EXCEPT !.responses = Append(st.responses, rs),
                                    !.at = Len(st.responses) + 1,
                                    !.cur = rs]
         IN  SubmitBlocks(qa, b + 1, ExtractIds(CheckResponses(appended, 0)))

\* lines 116-143, called as get calls it, without keyword arguments
request_data(qa) ==
    SubmitBlocks(qa, 1, [responses |-> <<>>, at |-> 0, cur |-> <<>>,
                         warnings |-> 0, requestIDs |-> <<>>, raised |-> "no"])

(***************************************************************************)
(* The archive's answers to a status query (jsoc_fetch, op=exp_status).    *)
(***************************************************************************)
VARIABLES
    status,         \* archive: state of every identifier it can be asked about
    manifest,       \* archive: the files of a Ready export (u.json()['data'])
    net,            \* "up": status queries answer 200; "down": they answer 500
    wire,           \* how the archive writes the JSON field 'status'
    disk,           \* the file names present in the destination directory
    overwrite,      \* argument of get
    progress,       \* argument of get
    pc,             \* where get stands
    requestIDs,     \* the list get iterates and pops
    jsoc_response,  \* the JSOCResponse passed to get
    i,              \* index of enumerate(requestIDs)
    rID,            \* the identifier popped at line 239
    results,        \* the Results aggregator r of get
    jobs,           \* the jobs handed to downloader.download, in order
    sweepStart,     \* requestIDs when the running for loop started
    polled,         \* identifiers polled at line 233 during the running for loop
    processed,      \* identifiers whose get_request call has returned
    scenario,       \* how far the run has followed end-to-end scenario A
    check,          \* the last call of check_request
    rd,             \* the last direct call of request_data
    lk,             \* the last direct call of query or get_metadata
    isdir,          \* the destination directory exists
    max_conn,       \* the connection limit given to get
    hv              \* the last call of HelioviewerClient.download_jp2

vars == <<status, manifest, net, wire, disk, overwrite, progress, pc,
          requestIDs, jsoc_response, i, rID, results, jobs, sweepStart,
          polled, processed, scenario, check, rd, lk, isdir, max_conn, hv>>

\* the identifiers a status query can name in this model
Ids == {IssuedIds[k] : k \in 1..MaxRequests}

Filenames == {"a.fits", "b.fits"}

Manifests == {<<>>, <<"a.fits">>, <<"b.fits">>, <<"a.fits", "b.fits">>}

\* the remote directory of an export (u.json()['dir'])
DirOf(id) == IF id = "R1" THEN "/x" ELSE IF id = "R2" THEN "/y" ELSE "/z"

\* the destination directory of the downloads
Path == "data"

\* the value of the field 'status' for each state of an export; an identifier
\* the archive does not know is answered with status 4
StatusCode(st) ==
    CASE st = "Ready"   -> 0
      [] st = "Pending" -> 1
      [] st = "Failed"  -> 5
      [] OTHER          -> 4

Digits == <<"0", "1", "2", "3", "4", "5", "6", "7", "8", "9">>

\* a JSON scalar: a number (t = "int", n) or a string of one digit (t = "str", s)
JsonInt(n) == [t |-> "int", n |-> n, s |-> ""]
JsonStr(s) == [t |-> "str", n |-> -1, s |-> s]

\* the archive writes the status as a number or as a string
JsonStatus(w, n) == IF w = "int" THEN JsonInt(n) ELSE JsonStr(Digits[n + 1])

\* int(x) that passes numbers on and does not parse strings
PyInt_NumbersOnly(x) == x.n

\* Python: int(x) for a JSON scalar
PyInt(x) ==
    IF x.t = "int" THEN x.n
    ELSE (CHOOSE d \in 1..Len(Digits) : Digits[d] = x.s) - 1

\* Python: x == '0'
EqualsStrZero(x) == x.t = "str" /\ x.s = "0"

\* the response of self._request_status(request_id)
request_status(id) ==
    IF net = "down"
    THEN [status_code |-> 500, body |-> "none", status |-> JsonInt(-1),
          requestid |-> NoKey, dir |-> "", data |-> <<>>]
    ELSE [status_code |-> 200, body |-> "json",
          status |-> JsonStatus(wire, StatusCode(status[id])),
          requestid |-> id, dir |-> DirOf(id),
          data |-> IF status[id] = "Ready" THEN manifest[id] ELSE <<>>]

(***************************************************************************)
(* check_request                                                           *)
(***************************************************************************)
\* lines 160-161: a single identifier becomes a one-element list
AsList(arg) == IF arg.kind = "str" THEN <<arg.str>> ELSE arg.items

\* lines 163-185; the messages printed are not modelled
RECURSIVE CheckLoop(_, _)
CheckLoop(ids, acc) ==
    IF acc.raised \/ ids = <<>> THEN acc
    ELSE LET u == request_status(Head(ids))
         IN  IF u.body # "json"
             THEN [acc EXCEPT !.raised = TRUE, !.polls = acc.polls + 1]
             ELSE CheckLoop(Tail(ids),
                            [acc EXCEPT !.allstatus = Append(acc.allstatus, PyInt(u.status)),
                                        !.polls = acc.polls + 1])

check_request(arg) ==
    CheckLoop(AsList(arg), [allstatus |-> <<>>, raised |-> FALSE, polls |-> 0])

\* lines 235-236 and 325-326: if progress: self.check_request(request_id);
\* TRUE when the statement raises
ProgressRaises(p, id) ==
    p /\ check_request([kind |-> "str", str |-> id, items |-> <<>>]).raised

\* lines 238 and 305: u.status_code == 200 and u.json()['status'] == '0'
SeenReady(u) == u.status_code = 200 /\ EqualsStrZero(u.status)

(***************************************************************************)
(* The Results aggregator (sunpy.net.download.Results): the keys required, *)
(* the facts submitted for keys (map_), the failures recorded and the      *)
(* completion signal.                                                      *)
(***************************************************************************)
EmptyMap == [k \in {} |-> ""]

NewResults == [required |-> {}, map_ |-> EmptyMap, failed |-> {}, signalled |-> FALSE]

\* every required key is terminal
isComplete(res) == \A k \in res.required : k \in DOMAIN res.map_ \/ k \in res.failed

\* results.poke(): signal completion when nothing is awaited
Poke(res) == [res EXCEPT !.signalled = res.signalled \/ isComplete(res)]

\* results.require(keys): the keys are awaited
Require(res, keys) == [res EXCEPT !.required = res.required \cup keys]

\* the callback returned by results.require(keys), called with the value
Submit(res, keys, value) ==
    Poke([res EXCEPT !.map_ = [k \in keys |-> value] @@ res.map_])

\* lines 317-318 as an assignment of a new dict in place of the update
MapUpdate_Replace(res, key, value) == [res EXCEPT !.map_ = (key :> value)]

\* lines 317-318: results.map_.update({key: {'path': value}})
MapUpdate(res, key, value) == [res EXCEPT !.map_ = (key :> value) @@ res.map_]

(***************************************************************************)
(* get_request                                                             *)
(***************************************************************************)
\* os.path.join(path, filename)
Join(path, filename) == path \o "/" \o filename

\* lines 309-310: urljoin(BASE_DL_URL + dir + '/', filename)
UrlOf(dir, filename) == BASE_DL_URL \o dir \o "/" \o filename

\* the test of line 308 without the look at the disk
ShouldDownload_IgnoringDisk(ow, is_file) == TRUE

\* line 308: if overwrite or not is_file
ShouldDownload(ow, is_file) == ow \/ ~is_file

\* lines 306-318: for ar in u.json()['data']; acc holds urls and results
RECURSIVE EnumerateData(_, _, _)
EnumerateData(data, dir, acc) ==
    IF data = <<>> THEN acc
    ELSE LET filename == Head(data)
             is_file  == filename \in disk
         IN  IF ShouldDownload(overwrite, is_file)
             THEN EnumerateData(Tail(data), dir,
                      [acc EXCEPT !.urls = Append(acc.urls,
                          [url |-> UrlOf(dir, filename), file |-> filename])])
             ELSE EnumerateData(Tail(data), dir,
                      [acc EXCEPT !.results =
                          MapUpdate(acc.results, filename, Join(Path, filename))])

\* lines 329-331 with the key awaited being the file name, as the skip of
\* line 317 names it, while the callback still reports the url
RECURSIVE DownloadAll_RequireFilename(_, _, _, _)
DownloadAll_RequireFilename(urls, id, downloader, acc) ==
    IF urls = <<>> THEN acc
    ELSE DownloadAll_RequireFilename(Tail(urls), id, downloader,
             [acc EXCEPT !.results = Require(acc.results, {Head(urls).file}),
                         !.jobs = Append(acc.jobs,
                             [url |-> Head(urls).url, file |-> Head(urls).file,
                              by |-> id, downloader |-> downloader,
                              state |-> "submitted"])])

\* lines 329-331: downloader.download(url, callback=results.require([url]), ...)
RECURSIVE DownloadAll(_, _, _, _)
DownloadAll(urls, id, downloader, acc) ==
    IF urls = <<>> THEN acc
    ELSE DownloadAll(Tail(urls), id, downloader,
             [acc EXCEPT !.results = Require(acc.results, {Head(urls).url}),
                         !.jobs = Append(acc.jobs,
                             [url |-> Head(urls).url, file |-> Head(urls).file,
                              by |-> id, downloader |-> downloader,
                              state |-> "submitted"])])

\* lines 301-338 without the results.poke() of line 336
get_request_NoPoke(id, res, js, downloader) ==
    LET u     == request_status(id)
        ready == SeenReady(u)
        found == IF ready
                 THEN EnumerateData(u.data, u.dir, [urls |-> <<>>, results |-> res])
                 ELSE [urls |-> <<>>, results |-> res]
        start == [results |-> found.results, jobs |-> js, raised |-> FALSE]
    IN  IF ~ready /\ ProgressRaises(progress, id)
        THEN [start EXCEPT !.raised = TRUE]
        ELSE IF found.urls # <<>>
        THEN DownloadAll(found.urls, id, downloader, start)
        ELSE [start EXCEPT !.results = Require(found.results, {})]

\* lines 301-338, called with one identifier and the shared results
get_request(id, res, js, downloader) ==
    LET u     == request_status(id)
        ready == SeenReady(u)
        found == IF ready
                 THEN EnumerateData(u.data, u.dir, [urls |-> <<>>, results |-> res])
                 ELSE [urls |-> <<>>, results |-> res]
        start == [results |-> found.results, jobs |-> js, raised |-> FALSE]
    IN  IF ~ready /\ ProgressRaises(progress, id)
        THEN [start EXCEPT !.raised = TRUE]
        ELSE IF found.urls # <<>>
        THEN DownloadAll(found.urls, id, downloader, start)
        ELSE [start EXCEPT !.results = Poke(Require(found.results, {}))]

(***************************************************************************)
(* End-to-end scenario A, followed as the run goes: "s0" before the first  *)
(* sweep, "s1".."s3" while the polls of sweep 1..3 answer as the scenario  *)
(* says, "met" once R2 has answered Ready in the third sweep, "off" for    *)
(* every other run.                                                        *)
(***************************************************************************)
ScenarioStart(qa, ids) ==
    IF qa = <<<<RespStaged>>, <<RespStaged>>>> /\ ids = <<"R1", "R2">> /\ disk = {}
    THEN "s0" ELSE "off"

ScenarioSweep(sc) ==
    CASE sc = "s0"  -> "s1"
      [] sc = "s1"  -> "s2"
      [] sc = "s2"  -> "s3"
      [] sc = "met" -> "met"
      [] OTHER      -> "off"

ScenarioPoll(sc, id) ==
    LET pending == net = "up" /\ status[id] = "Pending"
        ready1  == net = "up" /\ status["R1"] = "Ready" /\ manifest["R1"] = <<"a.fits">>
        ready2  == net = "up" /\ status["R2"] = "Ready" /\ manifest["R2"] = <<"b.fits">>
    IN  CASE sc = "s1" /\ pending                -> "s1"
          [] sc = "s2" /\ id = "R1" /\ ready1    -> "s2"
          [] sc = "s2" /\ id = "R2" /\ pending   -> "s2"
          [] sc = "s3" /\ id = "R1" /\ ready1    -> "s3"
          [] sc = "s3" /\ id = "R2" /\ ready2    -> "met"
          [] sc = "met" /\ net = "up"            -> "met"
          [] OTHER                               -> "off"

(***************************************************************************)
(* The record kept of a call of check_request: the identifiers asked for,  *)
(* the archive's state of each when asked, and what the call returned.     *)
(***************************************************************************)
NoCheck == [called |-> FALSE, ids |-> <<>>, seen |-> <<>>, up |-> TRUE,
            allstatus |-> <<>>, raised |-> FALSE, polls |-> 0]

CheckRecord(arg) ==
    LET ids == IF arg.kind = "str" THEN <<arg.str>> ELSE arg.items
        out == check_request(arg)
    IN  [called |-> TRUE, ids |-> ids,
         seen |-> [k \in 1..Len(ids) |-> status[ids[k]]], up |-> net = "up",
         allstatus |-> out.allstatus, raised |-> out.raised, polls |-> out.polls]

StrArg(id) == [kind |-> "str", str |-> id, items |-> <<>>]
ListArg(ids) == [kind |-> "list", str |-> "", items |-> ids]

CheckArgs ==
    {StrArg(id) : id \in Ids} \cup {ListArg(ids) : ids \in SeqsOf(Ids, 0, MaxRequests)}

NoCall == [called |-> FALSE, qa |-> <<>>, out |-> request_data(<<>>)]

\* the exports the archive has staged once the staging requests of qa are made
StagedIds(qa) ==
    {multi_request(qa, b[1])[b[2]].requestid :
        b \in {c \in (1..Len(qa)) \X (1..MaxResponses) :
                  c[2] <= Len(qa[c[1]]) /\ qa[c[1]][c[2]] = RespStaged}}

(***************************************************************************)
(* query, get_metadata and _lookup_records. A block is the keys it carries *)
(* and what drms.Client().query answers for its record set.                *)
(***************************************************************************)
RequiredKeys == {"start_time", "end_time", "series"}

\* c.query gives a DataFrame of the matching records; when none matches it
\* gives None or a DataFrame without rows
Answers == {"None", "empty", "records"}

LookupBlocks == [keys : SUBSET RequiredKeys, answer : Answers]

\* Python values: None, a pandas DataFrame, an astropy Table, with their rows
PyNone == [type |-> "NoneType", rows |-> 0]
DataFrame(n) == [type |-> "DataFrame", rows |-> n]
Table(n) == [type |-> "Table", rows |-> n]

\* the value r of line 422
QueryAnswer(answer) ==
    CASE answer = "None"    -> PyNone
      [] answer = "empty"   -> DataFrame(0)
      [] answer = "records" -> DataFrame(1)

\* the test of line 406 looking for the series only
HasTimeAndSeries_SeriesOnly(keys) == "series" \in keys

\* line 406: all([k in iargs for k in ('start_time', 'end_time', 'series')])
HasTimeAndSeries(keys) == \A k \in RequiredKeys : k \in keys

\* lines 393-431: _lookup_records(iargs)
lookup_records(iargs) ==
    IF ~HasTimeAndSeries(iargs.keys)
    THEN [raised |-> "ValueError", queried |-> FALSE, ret |-> PyNone]
    ELSE LET r == QueryAnswer(iargs.answer)
         IN  [raised |-> "no", queried |-> TRUE,
              ret |-> IF iargs.meta THEN r
                      ELSE IF r = PyNone THEN Table(0) ELSE Table(r.rows)]

\* lines 57-61: JSOCResponse.append(table)
ResponseAppend(table, t) == IF table = PyNone THEN t ELSE Table(table.rows + t.rows)

\* what a call has done so far: the blocks handed to _lookup_records, the
\* blocks the archive was queried for, the values the lookups returned, the
\* result being built and the exception raised
NoOut == [raised |-> "no", lookups |-> <<>>, queries |-> <<>>, rets |-> <<>>,
          result |-> PyNone]

\* lines 71-75: the loop of query over the blocks from b on
RECURSIVE QueryLoop(_, _, _)
QueryLoop(blocks, b, acc) ==
    IF b > Len(blocks) THEN acc
    ELSE LET iargs == [keys |-> blocks[b].keys, answer |-> blocks[b].answer,
                       meta |-> FALSE]
             out   == lookup_records(iargs)
             seen  == [acc EXCEPT !.lookups = Append(acc.lookups, b),
                                  !.queries = IF out.queried
                                              THEN Append(acc.queries, b)
                                              ELSE acc.queries]
         IN  IF out.raised # "no"
             THEN [seen EXCEPT !.raised = out.raised]
             ELSE QueryLoop(blocks, b + 1,
                      [seen EXCEPT !.rets = Append(seen.rets, out.ret),
                                   !.result = ResponseAppend(seen.result, out.ret)])

\* lines 66-78: query; the response of a query without blocks has no table
query(blocks) == QueryLoop(blocks, 1, NoOut)

\* lines 85-91: the loop of get_metadata over the blocks from b on
RECURSIVE MetadataLoop(_, _, _)
MetadataLoop(blocks, b, acc) ==
    IF b > Len(blocks) THEN acc
    ELSE LET iargs == [keys |-> blocks[b].keys, answer |-> blocks[b].answer,
                       meta |-> TRUE]
             out   == lookup_records(iargs)
             seen  == [acc EXCEPT !.lookups = Append(acc.lookups, b),
                                  !.queries = IF out.queried
                                              THEN Append(acc.queries, b)
                                              ELSE acc.queries]
         IN  IF out.raised # "no"
             THEN [seen EXCEPT !.raised = out.raised]
             ELSE IF out.ret = PyNone
             THEN [seen EXCEPT !.raised = "AttributeError",
                               !.rets = Append(seen.rets, out.ret)]
             ELSE MetadataLoop(blocks, b + 1,
                      [seen EXCEPT !.rets = Append(seen.rets, out.ret),
                                   !.result = [type |-> "MetaDict",
                                               rows |-> seen.result.rows + out.ret.rows]])

\* lines 80-93: get_metadata returns MetaDict(dicts)
get_metadata(blocks) ==
    MetadataLoop(blocks, 1, [NoOut EXCEPT !.result = [type |-> "MetaDict", rows |-> 0]])

NoLookup == [called |-> FALSE, method |-> "none", blocks |-> <<>>, out |-> NoOut]

(***************************************************************************)
(* HelioviewerClient.download_jp2. A keyword argument is absent, given     *)
(* with a value Python takes as false (None, ''), or given with a name or  *)
(* number.                                                                 *)
(***************************************************************************)
SourceKeys == <<"observatory", "instrument", "detector", "measurement">>

Jp2Kwargs ==
    [sourceId : {"absent", "given"},
     observatory : {"absent", "empty", "given"},
     instrument : {"absent", "empty", "given"},
     detector : {"absent", "empty", "given"},
     measurement : {"absent", "empty", "given"},
     jpip : {"absent", "given"}]

\* the sourceId the caller gives
CallerSourceId == 11

\* lines 37-50: self.datasource_info, keyed by (observatory, instrument,
\* detector, measurement) with None for a part the source does not have
datasource_info ==
    (<<"given", "given", "None", "given">> :> 19)
    @@ (<<"given", "given", "given", "given">> :> 4)

\* lines 180-183: kwargs[k] if(kwargs[k]) else None
ValueOrNone(v) == IF v = "given" THEN "given" ELSE "None"

NoRequest == [action |-> "none", sourceId |-> -1]

\* lines 179-185: the local variable sourceid after the if statement
SourceIdOf(kwargs) ==
    IF kwargs.observatory = "absent"
    THEN [raised |-> "no", bound |-> FALSE, sourceid |-> -1]
    ELSE IF \E k \in 2..4 : kwargs[SourceKeys[k]] = "absent"
    THEN [raised |-> "KeyError", bound |-> FALSE, sourceid |-> -1]
    ELSE LET key == [k \in 1..4 |-> ValueOrNone(kwargs[SourceKeys[k]])]
         IN  IF key \in DOMAIN datasource_info
             THEN [raised |-> "no", bound |-> TRUE, sourceid |-> datasource_info[key]]
             ELSE [raised |-> "KeyError", bound |-> FALSE, sourceid |-> -1]

\* lines 179-197: download_jp2(date, **kwargs); reading the unbound local
\* sourceid at line 190 raises UnboundLocalError; params.update(kwargs) puts
\* the caller's sourceId over the one looked up
download_jp2(kwargs) ==
    LET src == SourceIdOf(kwargs)
    IN  IF src.raised # "no"
        THEN [raised |-> src.raised, request |-> NoRequest, ret |-> "none"]
        ELSE IF ~src.bound
        THEN [raised |-> "UnboundLocalError", request |-> NoRequest, ret |-> "none"]
        ELSE [raised |-> "no",
              request |-> [action |-> "getJP2Image",
                           sourceId |-> IF kwargs.sourceId = "given"
                                        THEN CallerSourceId ELSE src.sourceid],
              ret |-> IF kwargs.jpip = "given" THEN "url" ELSE "filepath"]

NoJp2 == [called |-> FALSE,
          kwargs |-> [sourceId |-> "absent", observatory |-> "absent",
                      instrument |-> "absent", detector |-> "absent",
                      measurement |-> "absent", jpip |-> "absent"],
          out |-> [raised |-> "no", request |-> NoRequest, ret |-> "none"]]

(***************************************************************************)
(* Initial state: a client, a JSOCResponse from query, nothing staged.     *)
(***************************************************************************)
Init ==
    /\ status = [id \in Ids |-> "Unknown"]
    /\ manifest = [id \in Ids |-> <<>>]
    /\ net = "up"
    /\ wire \in {"int", "str"}
    /\ disk \in SUBSET Filenames
    /\ overwrite \in BOOLEAN
    /\ progress \in BOOLEAN
    /\ pc = "idle"
    /\ requestIDs = <<>>
    /\ jsoc_response = [set |-> FALSE, requestIDs |-> <<>>]
    /\ i = 0
    /\ rID = NoKey
    /\ results = NewResults
    /\ jobs = <<>>
    /\ sweepStart = <<>>
    /\ polled = <<>>
    /\ processed = <<>>
    /\ scenario = "off"
    /\ check = NoCheck
    /\ rd = NoCall
    /\ lk = NoLookup
    /\ isdir \in {d \in BOOLEAN : disk # {} => d}
    /\ max_conn = 5
    /\ hv = NoJp2

(***************************************************************************)
(* get                                                                     *)
(***************************************************************************)
\* lines 223-229: request_data, jsoc_response.requestIDs, sleep, Results
GetStart ==
    /\ pc = "idle"
    /\ \E qa \in QueryArgs :
        /\ SumLen(qa) <= MaxRequests
        /\ LET out == request_data(qa)
           IN  /\ status' = [id \in Ids |->
                                IF id \in StagedIds(qa) THEN "Pending" ELSE status[id]]
               /\ IF out.raised # "no"
                  THEN /\ pc' = "raised"
                       /\ UNCHANGED <<requestIDs, jsoc_response, scenario, results>>
                  ELSE /\ pc' = "while"
                       /\ requestIDs' = out.requestIDs
                       /\ results' = NewResults
                       /\ jsoc_response' = [set |-> TRUE, requestIDs |-> out.requestIDs]
                       /\ scenario' = ScenarioStart(qa, out.requestIDs)
    /\ UNCHANGED <<manifest, net, wire, disk, overwrite, progress, i, rID, jobs,
                   sweepStart, polled, processed, check, rd, lk, isdir, max_conn, hv>>

\* line 231: while requestIDs; line 232 starts the for loop; line 246 returns
While ==
    /\ pc = "while"
    /\ IF requestIDs = <<>>
       THEN /\ pc' = "done"
            /\ UNCHANGED <<i, sweepStart, polled, scenario>>
       ELSE /\ pc' = "for"
            /\ i' = 0
            /\ sweepStart' = requestIDs
            /\ polled' = <<>>
            /\ scenario' = ScenarioSweep(scenario)
    /\ UNCHANGED <<status, manifest, net, wire, disk, overwrite, progress,
                   requestIDs, jsoc_response, rID, results, jobs, processed,
                   check, rd, lk, isdir, max_conn, hv>>

\* line 232: enumerate is exhausted
ForEnd ==
    /\ pc = "for"
    /\ i >= Len(requestIDs)
    /\ pc' = "while"
    /\ UNCHANGED <<status, manifest, net, wire, disk, overwrite, progress,
                   requestIDs, jsoc_response, i, rID, results, jobs, sweepStart,
                   polled, processed, scenario, check, rd, lk, isdir, max_conn, hv>>

\* lines 232-239 and 243-244: one pass of the for body up to the call of
\* get_request, or the sleep
Poll ==
    /\ pc = "for"
    /\ i < Len(requestIDs)
    /\ LET request_id == requestIDs[i + 1]
           u          == request_status(request_id)
       IN  /\ polled' = Append(polled, request_id)
           /\ scenario' = ScenarioPoll(scenario, request_id)
           /\ IF ProgressRaises(progress, request_id)
              THEN /\ pc' = "raised"
                   /\ UNCHANGED <<requestIDs, jsoc_response, i, rID>>
              ELSE IF SeenReady(u)
              THEN /\ pc' = "get_request"
                   /\ rID' = request_id
                   /\ requestIDs' = Pop(requestIDs, i)
                   /\ jsoc_response' = [jsoc_response EXCEPT !.requestIDs = Pop(requestIDs, i)]
                   /\ UNCHANGED i
              ELSE /\ pc' = "for"
                   /\ i' = i + 1
                   /\ UNCHANGED <<requestIDs, jsoc_response, rID>>
    /\ UNCHANGED <<status, manifest, net, wire, disk, overwrite, progress,
                   results, jobs, sweepStart, processed, check, rd, lk, isdir, max_conn, hv>>

\* lines 240-241: r = self.get_request(rID, ..., results=r)
GetRequest ==
    /\ pc = "get_request"
    /\ LET out == get_request(rID, results, jobs, Len(processed) + 1)
       IN  /\ scenario' = IF net = "up" /\ status[rID] = "Ready" THEN scenario ELSE "off"
           /\ IF out.raised
              THEN /\ pc' = "raised"
                   /\ UNCHANGED <<i, results, jobs, processed>>
              ELSE /\ pc' = "for"
                   /\ i' = i + 1
                   /\ results' = out.results
                   /\ jobs' = out.jobs
                   /\ processed' = Append(processed, rID)
    /\ UNCHANGED <<status, manifest, net, wire, disk, overwrite, progress,
                   requestIDs, jsoc_response, rID, sweepStart, polled, check, rd, lk, isdir, max_conn, hv>>

\* line 249: max_conn=5, the default of get_request; the call of lines 240-241
\* does not pass max_conn
GetRequestMaxConn == 5

\* lines 293-294: every call makes its own Downloader(max_conn=max_conn); a
\* Downloader runs the oldest of its unfinished jobs, up to its limit
InFlight ==
    {j \in 1..Len(jobs) :
        /\ jobs[j].state = "submitted"
        /\ Cardinality({k \in 1..(j - 1) :
                           /\ jobs[k].downloader = jobs[j].downloader
                           /\ jobs[k].state = "submitted"}) < GetRequestMaxConn}

(***************************************************************************)
(* The downloader: every submitted job calls one of its two callbacks.     *)
(***************************************************************************)
\* callback: the partial returned by results.require([url])
DownloadComplete(j) ==
    /\ jobs[j].state = "submitted"
    /\ isdir
    /\ jobs' = [jobs EXCEPT ![j].state = "done"]
    /\ results' = Submit(results, {jobs[j].url}, Join(Path, jobs[j].file))
    /\ disk' = disk \cup {jobs[j].file}
    /\ UNCHANGED <<status, manifest, net, wire, overwrite, progress, pc,
                   requestIDs, jsoc_response, i, rID, sweepStart, polled,
                   processed, scenario, check, rd, lk, isdir, max_conn, hv>>

\* errback=lambda x: print(x)
DownloadError(j) ==
    /\ jobs[j].state = "submitted"
    /\ jobs' = [jobs EXCEPT ![j].state = "error"]
    /\ UNCHANGED <<status, manifest, net, wire, disk, overwrite, progress, pc,
                   requestIDs, jsoc_response, i, rID, results, sweepStart,
                   polled, processed, scenario, check, rd, lk, isdir, max_conn, hv>>

(***************************************************************************)
(* The archive and the network.                                            *)
(***************************************************************************)
ServerReady(id, m) ==
    /\ status[id] = "Pending"
    /\ status' = [status EXCEPT ![id] = "Ready"]
    /\ manifest' = [manifest EXCEPT ![id] = m]
    /\ UNCHANGED <<net, wire, disk, overwrite, progress, pc, requestIDs,
                   jsoc_response, i, rID, results, jobs, sweepStart, polled,
                   processed, scenario, check, rd, lk, isdir, max_conn, hv>>

ServerFail(id) ==
    /\ status[id] = "Pending"
    /\ status' = [status EXCEPT ![id] = "Failed"]
    /\ UNCHANGED <<manifest, net, wire, disk, overwrite, progress, pc,
                   requestIDs, jsoc_response, i, rID, results, jobs, sweepStart,
                   polled, processed, scenario, check, rd, lk, isdir, max_conn, hv>>

NetDown ==
    /\ net = "up"
    /\ pc \in {"while", "for", "get_request"}
    /\ net' = "down"
    /\ UNCHANGED <<status, manifest, wire, disk, overwrite, progress, pc,
                   requestIDs, jsoc_response, i, rID, results, jobs, sweepStart,
                   polled, processed, scenario, check, rd, lk, isdir, max_conn, hv>>

NetUp ==
    /\ net = "down"
    /\ net' = "up"
    /\ UNCHANGED <<status, manifest, wire, disk, overwrite, progress, pc,
                   requestIDs, jsoc_response, i, rID, results, jobs, sweepStart,
                   polled, processed, scenario, check, rd, lk, isdir, max_conn, hv>>

Next ==
    \/ GetStart
    \/ While
    \/ ForEnd
    \/ Poll
    \/ GetRequest
    \/ \E j \in 1..Len(jobs) : DownloadComplete(j)
    \/ \E j \in 1..Len(jobs) : DownloadError(j)
    \/ \E id \in Ids : \E m \in Manifests : ServerReady(id, m)
    \/ \E id \in Ids : ServerFail(id)
    \/ NetDown
    \/ NetUp

Spec == Init /\ [][Next]_vars

\* get runs on: its steps are taken as long as it has not returned or raised
FairSpec == Spec /\ WF_vars(GetStart \/ While \/ ForEnd \/ Poll \/ GetRequest)

(***************************************************************************)
(* A direct call of request_data on a JSOCResponse.                        *)
(***************************************************************************)
InitSubmit ==
    /\ status = [id \in Ids |-> "Unknown"]
    /\ manifest = [id \in Ids |-> <<>>]
    /\ net = "up"
    /\ wire = "str"
    /\ disk = {}
    /\ overwrite = FALSE
    /\ progress = TRUE
    /\ pc = "idle"
    /\ requestIDs = <<>>
    /\ jsoc_response = [set |-> FALSE, requestIDs |-> <<>>]
    /\ i = 0
    /\ rID = NoKey
    /\ results = NewResults
    /\ jobs = <<>>
    /\ sweepStart = <<>>
    /\ polled = <<>>
    /\ processed = <<>>
    /\ scenario = "off"
    /\ check = NoCheck
    /\ \E qa \in QueryArgs : rd = [called |-> FALSE, qa |-> qa, out |-> request_data(<<>>)]
    /\ lk = NoLookup
    /\ isdir = TRUE
    /\ max_conn = 5
    /\ hv = NoJp2

RequestDataCall ==
    /\ ~rd.called
    /\ rd' = [called |-> TRUE, qa |-> rd.qa, out |-> request_data(rd.qa)]
    /\ UNCHANGED <<status, manifest, net, wire, disk, overwrite, progress, pc,
                   requestIDs, jsoc_response, i, rID, results, jobs, sweepStart,
                   polled, processed, scenario, check, lk, isdir, max_conn, hv>>

NextSubmit == RequestDataCall

SpecSubmit == InitSubmit /\ [][NextSubmit]_vars

(***************************************************************************)
(* A direct call of check_request, whatever the archive says of each       *)
(* identifier.                                                             *)
(***************************************************************************)
InitCheck ==
    /\ status \in [Ids -> {"Unknown", "Pending", "Ready", "Failed"}]
    /\ manifest = [id \in Ids |-> <<>>]
    /\ net \in {"up", "down"}
    /\ wire \in {"int", "str"}
    /\ disk = {}
    /\ overwrite = FALSE
    /\ progress = TRUE
    /\ pc = "idle"
    /\ requestIDs = <<>>
    /\ jsoc_response = [set |-> FALSE, requestIDs |-> <<>>]
    /\ i = 0
    /\ rID = NoKey
    /\ results = NewResults
    /\ jobs = <<>>
    /\ sweepStart = <<>>
    /\ polled = <<>>
    /\ processed = <<>>
    /\ scenario = "off"
    /\ check = NoCheck
    /\ rd = NoCall
    /\ lk = NoLookup
    /\ isdir = TRUE
    /\ max_conn = 5
    /\ hv = NoJp2

CheckRequestCall(arg) ==
    /\ ~check.called
    /\ check' = CheckRecord(arg)
    /\ UNCHANGED <<status, manifest, net, wire, disk, overwrite, progress, pc,
                   requestIDs, jsoc_response, i, rID, results, jobs, sweepStart,
                   polled, processed, scenario, rd, lk, isdir, max_conn, hv>>

NextCheck == \E arg \in CheckArgs : CheckRequestCall(arg)

SpecCheck == InitCheck /\ [][NextCheck]_vars

(***************************************************************************)
(* The calls of get_request that get makes at lines 240-241, sharing one    *)
(* Results, for exports that are Ready, with the downloads running in      *)
(* between.                                                                *)
(***************************************************************************)
InitDispatch ==
    /\ status = [id \in Ids |-> "Ready"]
    /\ manifest \in [Ids -> Manifests]
    /\ net = "up"
    /\ wire = "str"
    /\ disk \in SUBSET Filenames
    /\ overwrite \in BOOLEAN
    /\ progress = FALSE
    /\ pc = "idle"
    /\ requestIDs = <<>>
    /\ jsoc_response = [set |-> FALSE, requestIDs |-> <<>>]
    /\ i = 0
    /\ rID = NoKey
    /\ results = NewResults
    /\ jobs = <<>>
    /\ sweepStart = <<>>
    /\ polled = <<>>
    /\ processed = <<>>
    /\ scenario = "off"
    /\ check = NoCheck
    /\ rd = NoCall
    /\ lk = NoLookup
    /\ isdir \in {d \in BOOLEAN : disk # {} => d}
    /\ max_conn \in {1, 5}
    /\ hv = NoJp2

\* r = self.get_request(id, ..., results=r), lines 248-338
GetRequestCall(id) ==
    /\ Len(processed) < MaxRequests
    /\ LET out == get_request(id, results, jobs, Len(processed) + 1)
       IN  /\ ~out.raised
           /\ rID' = id
           /\ results' = out.results
           /\ jobs' = out.jobs
           /\ processed' = Append(processed, id)
    /\ UNCHANGED <<status, manifest, net, wire, disk, overwrite, progress, pc,
                   requestIDs, jsoc_response, i, sweepStart, polled, scenario,
                   check, rd, lk, isdir, max_conn, hv>>

NextDispatch ==
    \/ \E id \in Ids : GetRequestCall(id)
    \/ \E j \in 1..Len(jobs) : DownloadComplete(j)
    \/ \E j \in 1..Len(jobs) : DownloadError(j)

SpecDispatch == InitDispatch /\ [][NextDispatch]_vars

(***************************************************************************)
(* A direct call of query or of get_metadata.                              *)
(***************************************************************************)
InitLookup ==
    /\ status = [id \in Ids |-> "Unknown"]
    /\ manifest = [id \in Ids |-> <<>>]
    /\ net = "up"
    /\ wire = "str"
    /\ disk = {}
    /\ overwrite = FALSE
    /\ progress = TRUE
    /\ pc = "idle"
    /\ requestIDs = <<>>
    /\ jsoc_response = [set |-> FALSE, requestIDs |-> <<>>]
    /\ i = 0
    /\ rID = NoKey
    /\ results = NewResults
    /\ jobs = <<>>
    /\ sweepStart = <<>>
    /\ polled = <<>>
    /\ processed = <<>>
    /\ scenario = "off"
    /\ check = NoCheck
    /\ rd = NoCall
    /\ \E blocks \in SeqsOf(LookupBlocks, 0, MaxBlocks) :
          lk = [NoLookup EXCEPT !.blocks = blocks]
    /\ isdir = TRUE
    /\ max_conn = 5
    /\ hv = NoJp2

QueryCall ==
    /\ ~lk.called
    /\ lk' = [called |-> TRUE, method |-> "query", blocks |-> lk.blocks,
              out |-> query(lk.blocks)]
    /\ UNCHANGED <<status, manifest, net, wire, disk, overwrite, progress, pc,
                   requestIDs, jsoc_response, i, rID, results, jobs, sweepStart,
                   polled, processed, scenario, check, rd, isdir, max_conn, hv>>

GetMetadataCall ==
    /\ ~lk.called
    /\ lk' = [called |-> TRUE, method |-> "get_metadata", blocks |-> lk.blocks,
              out |-> get_metadata(lk.blocks)]
    /\ UNCHANGED <<status, manifest, net, wire, disk, overwrite, progress, pc,
                   requestIDs, jsoc_response, i, rID, results, jobs, sweepStart,
                   polled, processed, scenario, check, rd, isdir, max_conn, hv>>

NextLookup == QueryCall \/ GetMetadataCall

SpecLookup == InitLookup /\ [][NextLookup]_vars

(***************************************************************************)
(* A call of HelioviewerClient.download_jp2.                               *)
(***************************************************************************)
InitJp2 ==
    /\ status = [id \in Ids |-> "Unknown"]
    /\ manifest = [id \in Ids |-> <<>>]
    /\ net = "up"
    /\ wire = "str"
    /\ disk = {}
    /\ overwrite = FALSE
    /\ progress = TRUE
    /\ pc = "idle"
    /\ requestIDs = <<>>
    /\ jsoc_response = [set |-> FALSE, requestIDs |-> <<>>]
    /\ i = 0
    /\ rID = NoKey
    /\ results = NewResults
    /\ jobs = <<>>
    /\ sweepStart = <<>>
    /\ polled = <<>>
    /\ processed = <<>>
    /\ scenario = "off"
    /\ check = NoCheck
    /\ rd = NoCall
    /\ lk = NoLookup
    /\ isdir = TRUE
    /\ max_conn = 5
    /\ \E kwargs \in Jp2Kwargs : hv = [NoJp2 EXCEPT !.kwargs = kwargs]

DownloadJp2Call ==
    /\ ~hv.called
    /\ hv' = [called |-> TRUE, kwargs |-> hv.kwargs, out |-> download_jp2(hv.kwargs)]
    /\ UNCHANGED <<status, manifest, net, wire, disk, overwrite, progress, pc,
                   requestIDs, jsoc_response, i, rID, results, jobs, sweepStart,
                   polled, processed, scenario, check, rd, lk, isdir, max_conn>>

NextJp2 == DownloadJp2Call

SpecJp2 == InitJp2 /\ [][NextJp2]_vars

(***************************************************************************)
(* Properties.                                                             *)
(***************************************************************************)
\* every outstanding request is Ready or Failed on the archive
AllResolved == \A id \in Range(requestIDs) : status[id] \in {"Ready", "Failed"}

\* the urls of the submitted download jobs, in order of submission
JobUrls == [j \in 1..Len(jobs) |-> jobs[j].url]

\* every block of qa is answered by one response
OneEach(qa) == \A b \in 1..Len(qa) : Len(qa[b]) = 1

\* the blocks of qa whose staging request did not succeed
FailedBlocks(qa) == {b \in 1..Len(qa) : \E j \in 1..Len(qa[b]) : qa[b][j] # RespStaged}

\* C1: once every request has resolved to Ready or Failed on the archive (and
\* status queries are answered), the poll loop of get is eventually left: the
\* outstanding list is empty and get returns, or an exception ends it.
C1_PollLoopTerminates ==
    <>[](pc # "idle" /\ net = "up" /\ AllResolved) => <>(pc \in {"done", "raised"})

\* C2: when the poll of line 233 answers Failed for an outstanding request,
\* the step removes the request from the outstanding list, records the failure
\* on the aggregator and raises nothing.
C2_FailedIsRemovedAndRecorded ==
    [][(/\ pc = "for" /\ i < Len(requestIDs) /\ polled' # polled
        /\ net = "up" /\ status[requestIDs[i + 1]] = "Failed")
       => (/\ pc' # "raised"
           /\ requestIDs' = Pop(requestIDs, i)
           /\ requestIDs[i + 1] \in results'.failed)]_vars

\* C3: request_data returns, with at most one identifier per block, and the
\* warnings plus the identifiers returned number the blocks submitted.
C3_IdentifiersPlusWarningsEqualBlocks ==
    (rd.called /\ OneEach(rd.qa))
    => (/\ rd.out.raised = "no"
        /\ Len(rd.out.requestIDs) <= Len(rd.qa)
        /\ rd.out.warnings + Len(rd.out.requestIDs) = Len(rd.qa))

\* C4: when the submission of exactly one block fails, at any position,
\* request_data raises nothing, returns one identifier less than there are
\* blocks and records one warning.
C4_OneFailedBlockNeverAborts ==
    (rd.called /\ OneEach(rd.qa) /\ Cardinality(FailedBlocks(rd.qa)) = 1)
    => (/\ rd.out.raised = "no"
        /\ Len(rd.out.requestIDs) = Len(rd.qa) - 1
        /\ rd.out.warnings = 1)

\* C5: a call of get_request that finds its request Ready submits no download
\* job for a manifest entry whose file is in the destination directory while
\* overwrite is false, and records the entry in the aggregator under its file
\* name with the local path of the existing file.
C5_ExistingFileIsSkipped ==
    [][(pc = "get_request" /\ pc' = "for" /\ net = "up" /\ status[rID] = "Ready"
        /\ ~overwrite)
       => \A k \in 1..Len(manifest[rID]) :
            manifest[rID][k] \in disk
            => (/\ \A j \in (Len(jobs) + 1)..Len(jobs') :
                      jobs'[j].file # manifest[rID][k]
                /\ manifest[rID][k] \in DOMAIN results'.map_
                /\ results'.map_[manifest[rID][k]] = Join(Path, manifest[rID][k]))]_vars

\* C5 witness: get_request has returned after recording an existing file
C5_Witness ==
    /\ pc = "for" /\ processed # <<>> /\ ~overwrite
    /\ \E f \in Filenames : f \in DOMAIN results.map_ /\ f \in disk
    /\ jobs # <<>>

\* C6: every request get has removed as Ready and handed to get_request has
\* each entry of its manifest either recorded as skipped or submitted as exactly
\* one download job, and no url is submitted twice.
C6_ReadyRequestFullyProcessed ==
    /\ \A p \in 1..Len(processed) :
         \A k \in 1..Len(manifest[processed[p]]) :
            \/ manifest[processed[p]][k] \in DOMAIN results.map_
            \/ Cardinality({j \in 1..Len(jobs) :
                               /\ jobs[j].by = processed[p]
                               /\ jobs[j].file = manifest[processed[p]][k]}) = 1
    /\ \A j1, j2 \in 1..Len(jobs) : jobs[j1].url = jobs[j2].url => j1 = j2

\* C7: once get has returned and every submitted job has called one of its two
\* callbacks, the aggregator is complete, and every failed transfer is recorded
\* on it.
C7_AggregatorCompletes ==
    (pc = "done" /\ \A j \in 1..Len(jobs) : jobs[j].state # "submitted")
    => (/\ isComplete(results)
        /\ \A j \in 1..Len(jobs) : jobs[j].state = "error" => jobs[j].url \in results.failed)

\* C8: when a sweep ends, the identifiers polled during it are exactly the
\* identifiers outstanding when it started, each once.
C8_SweepPollsEveryOutstanding ==
    (pc = "for" /\ i >= Len(requestIDs)) => polled = sweepStart

\* C9: once scenario A has been followed to the Ready answer for R2 in the third
\* sweep and that sweep is over, nothing is outstanding and the jobs submitted
\* are the two urls "/x/a.fits" and "/y/b.fits".
C9_ScenarioA ==
    (scenario = "met" /\ pc \in {"while", "done"})
    => (requestIDs = <<>> /\ JobUrls = <<"/x/a.fits", "/y/b.fits">>)

\* C10: a call of check_request whose status queries are answered returns one
\* status per identifier asked for, in order, after one query each: 0 exactly
\* for Ready, 1 exactly for Pending, otherwise the code the archive gave.
C10_CheckRequestClassifies ==
    (check.called /\ check.up)
    => (/\ ~check.raised
        /\ check.polls = Len(check.ids)
        /\ Len(check.allstatus) = Len(check.ids)
        /\ \A k \in 1..Len(check.ids) :
             /\ check.allstatus[k] = 0 <=> check.seen[k] = "Ready"
             /\ check.allstatus[k] = 1 <=> check.seen[k] = "Pending"
             /\ check.seen[k] = "Failed" => check.allstatus[k] = 5
             /\ check.seen[k] = "Unknown" => check.allstatus[k] = 4)

\* C10 witness: a call with two identifiers, one Ready and one Failed, whose
\* statuses arrive as strings
C10_Witness ==
    /\ check.called /\ check.up /\ wire = "str"
    /\ Len(check.ids) = 2
    /\ check.seen = <<"Ready", "Failed">>
    /\ check.allstatus = <<0, 5>>

\* C11: on the shared aggregator the number of keys awaited never decreases,
\* and no step marks a key terminal that is terminal already: neither the skip
\* of a file found on disk nor the completion of a download writes an entry of
\* map_ that exists.
C11_KeyMarkedTerminalOnce ==
    [][/\ Cardinality(results'.required) >= Cardinality(results.required)
       /\ (pc = "get_request" /\ pc' = "for" /\ net = "up" /\ status[rID] = "Ready"
           /\ ~overwrite)
          => \A k \in 1..Len(manifest[rID]) :
                manifest[rID][k] \in disk => manifest[rID][k] \notin DOMAIN results.map_
       /\ \A j \in 1..Len(jobs) :
            (jobs[j].state = "submitted" /\ jobs'[j].state = "done")
            => jobs[j].url \notin DOMAIN results.map_]_vars


ZeroFiles(id) ==
    \A k \in 1..Len(manifest[id]) : manifest[id][k] \in disk /\ ~overwrite

C14_IncompleteBlockRejected ==
    lk.called
    => \A b \in 1..Len(lk.blocks) :
          (lk.blocks[b].keys # RequiredKeys /\ b \in Range(lk.out.lookups))
          => (/\ lk.out.raised = "ValueError"
              /\ b \notin Range(lk.out.queries)
              /\ lk.out.lookups[Len(lk.out.lookups)] = b
              /\ Cardinality({k \in 1..Len(lk.out.lookups) : lk.out.lookups[k] = b}) = 1)

\* C14 witness: query has raised on its second block, which has a series and
\* no times, after the archive was queried for the first
C14_Witness ==
    /\ lk.called /\ lk.method = "query"
    /\ Len(lk.blocks) = 2
    /\ lk.blocks[2].keys = {"series"}
    /\ lk.out.raised = "ValueError"
    /\ lk.out.lookups = <<1, 2>>
    /\ lk.out.queries = <<1>>


\* C15: when no record matches any block of a call of query or get_metadata,
\* every lookup returns an empty table, the call raises nothing and its result
\* is empty.
C15_NoRecordsGivesEmptyResult ==
    (/\ lk.called
     /\ \A b \in 1..Len(lk.blocks) :
           lk.blocks[b].keys = RequiredKeys /\ lk.blocks[b].answer \in {"None", "empty"})
    => (/\ lk.out.raised = "no"
        /\ Len(lk.out.rets) = Len(lk.blocks)
        /\ \A k \in 1..Len(lk.out.rets) :
              lk.out.rets[k].type # "NoneType" /\ lk.out.rets[k].rows = 0
        /\ lk.out.result.rows = 0)


\* C16: whenever a download job has been submitted, the destination directory
\* exists.
C16_DirectoryExistsBeforeDownload ==
    jobs # <<>> => isdir


\* C17: at every moment the transfers in flight number at most the connection
\* limit given to get.
C17_InFlightWithinMaxConn ==
    Cardinality(InFlight) <= max_conn


\* C18: wherever get or get_request looks at the progress flag, the statement
\* it guards ends the same with the flag on and off: the poll of an outstanding
\* request, and the call of get_request for a request that is not seen Ready,
\* go on with progress true exactly if they go on with progress false.
C18_ProgressIsObservabilityOnly ==
    /\ (pc = "for" /\ i < Len(requestIDs))
       => (ProgressRaises(TRUE, requestIDs[i + 1])
           <=> ProgressRaises(FALSE, requestIDs[i + 1]))
    /\ (pc = "get_request" /\ ~SeenReady(request_status(rID)))
       => (ProgressRaises(TRUE, rID) <=> ProgressRaises(FALSE, rID))


\* the call names a data source the client knows by its four parts
KnownSource(kwargs) ==
    /\ \A k \in 1..4 : kwargs[SourceKeys[k]] # "absent"
    /\ [k \in 1..4 |-> ValueOrNone(kwargs[SourceKeys[k]])] \in DOMAIN datasource_info

\* C19: a call of download_jp2 that gives a sourceId and none of the four
\* parts, or the four parts of a known source, raises nothing, issues a
\* getJP2Image request with a sourceId and returns a file path, or a url when
\* jpip is given.
C19_EitherSourceFormAccepted ==
    (/\ hv.called
     /\ \/ (hv.kwargs.sourceId = "given"
            /\ \A k \in 1..4 : hv.kwargs[SourceKeys[k]] = "absent")
        \/ KnownSource(hv.kwargs))
    => (/\ hv.out.raised = "no"
        /\ hv.out.request.action = "getJP2Image"
        /\ hv.out.request.sourceId >= 0
        /\ hv.out.ret = IF hv.kwargs.jpip = "given" THEN "url" ELSE "filepath")


\* the identifiers the archive issued for the submissions of blocks b.. of qa
\* that it staged, in the order of submission
RECURSIVE StagedInOrder(_, _)
StagedInOrder(qa, b) ==
    IF b > Len(qa) THEN <<>>
    ELSE LET rs     == multi_request(qa, b)
             staged == SelectSeq(rs, LAMBDA r : r.status_code = 200 /\ r.status = 2)
         IN  [k \in 1..Len(staged) |-> staged[k].requestid] \o StagedInOrder(qa, b + 1)

\* C20: the list request_data returns is the list of the identifiers issued
\* for the staged submissions, in submission order: none from a failed
\* response, none left out, none twice.
C20_ReturnsExactlyStagedIds ==
    (rd.called /\ rd.out.raised = "no")
    => rd.out.requestIDs = StagedInOrder(rd.qa, 1)


\* C21: a poll of get that sees its request Ready is followed at once by the
\* call of get_request for that request, whatever the other requests are, and
\* that call submits a download job for every file of the manifest that is to
\* be downloaded before get polls or sleeps again.
C21_ReadyDispatchedInSameSweep ==
    [][/\ (pc = "for" /\ i < Len(requestIDs) /\ polled' # polled
           /\ SeenReady(request_status(requestIDs[i + 1])))
          => (pc' = "get_request" /\ rID' = requestIDs[i + 1])
       /\ (pc = "get_request" /\ pc' # "get_request")
          => (/\ pc' = "for"
              /\ \A k \in 1..Len(manifest[rID]) :
                    ShouldDownload(overwrite, manifest[rID][k] \in disk)
                    => \E j \in (Len(jobs) + 1)..Len(jobs') :
                          /\ jobs'[j].by = rID
                          /\ jobs'[j].file = manifest[rID][k])]_vars


\* check_request(id) returns [0]: the export is ready to download
ClassifiedReady(id) ==
    LET c == check_request(StrArg(id))
    IN  ~c.raised /\ c.allstatus = <<0>>

\* C22: whenever get is about to poll a request, or get_request to look at
\* one, the test they make of the status response (lines 238 and 305) says
\* ready exactly if check_request classifies the same response as ready.
C22_StatusClassifiedAlike ==
    /\ (pc = "for" /\ i < Len(requestIDs))
       => (SeenReady(request_status(requestIDs[i + 1]))
           <=> ClassifiedReady(requestIDs[i + 1]))
    /\ pc = "get_request"
       => (SeenReady(request_status(rID)) <=> ClassifiedReady(rID))


\* the urls whose download has finished
DoneUrls(js) == {js[j].url : j \in {k \in 1..Len(js) : js[k].state = "done"}}

C24_NoCompletionWhileOutstanding ==
    results.signalled => \A id \in Range(requestIDs) : status[id] # "Pending"


\* C25: once get has recorded the list returned by request_data on the
\* response (line 226), no step of get changes jsoc_response.requestIDs, so it
\* still holds every identifier, in submission order, when get returns.
C25_ResponseKeepsRequestIDs ==
    [][jsoc_response.set
       => jsoc_response'.requestIDs = jsoc_response.requestIDs]_vars


=============================================================================
